---------------------------- MODULE Spec2Model ----------------------------
(***************************************************************************)
(* Model of src/app.py: the four-stage pipeline (outline, scenes, final    *)
(* prompt, video render) streamed to the caller as server-sent events, the *)
(* file store "videos/" and the route that serves it.                      *)
(*                                                                         *)
(* Every Python str is a sequence of one-character (or one-token) strings, *)
(* so that slicing, stripping and substitution are computed, not assumed.  *)
(* Python's None is the value None below, Some(x) is any other value.      *)
(***************************************************************************)
EXTENDS Integers, Sequences, FiniteSets, TLC

(***************************************************************************)
(* Bounds of the model.                                                    *)
(***************************************************************************)
MaxLen == 3        \* longest free part of a topic tried by SpecNames
StartTime == 9     \* int(time.time()) when the model starts
MaxTicks == 1      \* seconds that may pass during the model's runs

(***************************************************************************)
(* Program constant.                                                       *)
(***************************************************************************)
TruncLen == 50     \* filename[:50]

None == [some |-> FALSE, val |-> <<>>]
Some(x) == [some |-> TRUE, val |-> x]
\* Python truthiness of an Optional[str]: None and "" are falsy
Truthy(o) == o.some /\ o.val # <<>>

(***************************************************************************)
(* Characters.  \w is the word class of re (letters, digits, underscore),  *)
(* \s the whitespace class; everything else but the hyphen is removed by   *)
(* the first substitution of sanitize_filename.                            *)
(***************************************************************************)
WordChars == {"a", "_", "v", "i", "d", "e", "o", "s", "m", "p",
              "0", "1", "2", "3", "4", "5", "6", "7", "8", "9"}
SpaceChars == {" "}
OtherChars == {"/", "?", "."}
Alphabet == {"a", "_", " ", "-", "/", "?"}

Min(a, b) == IF a < b THEN a ELSE b

\* a first substitution whose class also lets the question mark through
re_sub_keeps_query(s) ==
    SelectSeq(s, LAMBDA c : c \in WordChars \cup SpaceChars \cup {"-", "?"})

\* re.sub(r'[^\w\s-]', '', filename)
re_sub_disallowed(s) ==
    SelectSeq(s, LAMBDA c : c \in WordChars \cup SpaceChars \cup {"-"})

RECURSIVE lstrip(_)
lstrip(s) ==
    IF s # <<>> /\ Head(s) \in SpaceChars THEN lstrip(Tail(s)) ELSE s

RECURSIVE rstrip(_)
rstrip(s) ==
    IF s # <<>> /\ s[Len(s)] \in SpaceChars
    THEN rstrip(SubSeq(s, 1, Len(s) - 1))
    ELSE s

RECURSIVE lstrip_underscores(_)
lstrip_underscores(s) ==
    IF s # <<>> /\ Head(s) \in SpaceChars \cup {"_"}
    THEN lstrip_underscores(Tail(s))
    ELSE s

\* a strip that also eats underscores, as str.strip(" _") would
strip_underscores_too(s) == rstrip(lstrip_underscores(s))

\* str.strip()
strip(s) == rstrip(lstrip(s))

RECURSIVE re_sub_separators(_)
\* re.sub(r'[-\s]+', '_', filename): every maximal run becomes one underscore
re_sub_separators(s) ==
    IF s = <<>> THEN <<>>
    ELSE IF Head(s) \in SpaceChars \cup {"-"}
         THEN IF Len(s) > 1 /\ s[2] \in SpaceChars \cup {"-"}
              THEN re_sub_separators(Tail(s))
              ELSE <<"_">> \o re_sub_separators(Tail(s))
         ELSE <<Head(s)>> \o re_sub_separators(Tail(s))

\* a slice that keeps one character more than filename[:50]
slice_one_more(s, n) == SubSeq(s, 1, Min(Len(s), n + 1))

\* filename[:n]
slice(s, n) == SubSeq(s, 1, Min(Len(s), n))

sanitize_filename(filename) ==
    slice(re_sub_separators(strip(re_sub_disallowed(filename))), TruncLen)

RECURSIVE str_int(_)
\* str(n) of a non-negative int, in decimal
str_int(n) ==
    LET digit == <<"0", "1", "2", "3", "4", "5", "6", "7", "8", "9">>[(n % 10) + 1]
    IN  IF n < 10 THEN <<digit>> ELSE str_int(n \div 10) \o <<digit>>

VideosDir == <<"v", "i", "d", "e", "o", "s">>
Placeholder == <<"v", "i", "d", "e", "o">>
Mp4 == <<".", "m", "p", "4">>

\* get_video_filename with timestamp = int(time.time()) passed in
get_video_filename(user_topic, timestamp) ==
    LET clean == sanitize_filename(user_topic)
        clean_topic == IF clean # <<>> THEN clean ELSE Placeholder
    IN  VideosDir \o <<"/">> \o clean_topic \o <<"_">> \o str_int(timestamp) \o Mp4


RECURSIVE basename(_)
\* os.path.basename: what follows the last "/"
basename(path) ==
    IF \E i \in 1..Len(path) : path[i] = "/"
    THEN basename(Tail(path))
    ELSE path

VideosUrl == <<"/">> \o VideosDir \o <<"/">>

(***************************************************************************)
(* Stage D.  video_info is the dict generate_video_from_prompt returns.    *)
(***************************************************************************)
CompletedInfo(fname, source) ==
    [status |-> "completed", filename |-> Some(fname), source_url |-> source]

ErrorInfo(msg) ==
    [status |-> "error", error |-> msg, filename |-> None]

UnboundInfo == [status |-> "unbound"]

\* an agent D that builds the URL without looking at the status
agent_d_url_always(final_prompt, video_info) ==
    [final_prompt |-> final_prompt,
     video_info   |-> video_info,
     video_url    |-> Some(VideosUrl \o basename(video_info.filename.val))]

\* lines 125-133, applied to the dict line 123 received
agent_d_video_generator(final_prompt, video_info) ==
    [final_prompt |-> final_prompt,
     video_info   |-> video_info,
     video_url    |-> IF video_info.status = "completed" /\ Truthy(video_info.filename)
                      THEN Some(VideosUrl \o basename(video_info.filename.val))
                      ELSE None]

UnboundObj == [final_prompt |-> <<>>, video_info |-> UnboundInfo, video_url |-> None]

\* dict.get(key, default) for the key "filename"
get_filename(video_info) ==
    IF "filename" \in DOMAIN video_info THEN video_info.filename ELSE Some(<<"N/A">>)

(***************************************************************************)
(* The events of the stream: the dicts handed to json.dumps.               *)
(***************************************************************************)
StageEvent(agent, content) == [agent |-> agent, content |-> content]

\* a D event that carries only the beginning of the final prompt
DEvent_shortened(obj) ==
    [agent        |-> "D",
     content      |-> slice(obj.final_prompt, Len(obj.final_prompt) - 1),
     video_url    |-> obj.video_url,
     video_status |-> obj.video_info.status,
     filename     |-> get_filename(obj.video_info)]

DEvent(obj) ==
    [agent        |-> "D",
     content      |-> obj.final_prompt,
     video_url    |-> obj.video_url,
     video_status |-> obj.video_info.status,
     filename     |-> get_filename(obj.video_info)]

DoneEvent == StageEvent("DONE", <<"Complete! Video saved.">>)

ErrorEvent(msg) == StageEvent("ERROR", <<"Error: ">> \o msg)

(***************************************************************************)
(* The file store and the route GET /videos/<path:filename>.               *)
(***************************************************************************)
RECURSIVE url_path(_)
\* the path of a URL: what precedes the query or the fragment
url_path(url) ==
    IF url = <<>> \/ Head(url) \in {"?", "#"} THEN <<>>
    ELSE <<Head(url)>> \o url_path(Tail(url))

\* the <path:filename> the rule "/videos/<path:filename>" binds, if it matches
route_videos(url) ==
    LET p == url_path(url)
        n == Len(VideosUrl)
    IN  IF Len(p) > n /\ SubSeq(p, 1, n) = VideosUrl
        THEN Some(SubSeq(p, n + 1, Len(p)))
        ELSE None

NotFound == [code |-> 404, body |-> <<>>]

\* send_from_directory("videos", filename): the bytes of the file, or 404
get_video(fname, store) ==
    LET path == VideosDir \o <<"/">> \o fname
    IN  IF path \in DOMAIN store
        THEN [code |-> 200, body |-> store[path]]
        ELSE NotFound

\* the response to GET url
http_get(url, store) ==
    LET m == route_videos(url)
    IN  IF m.some THEN get_video(m.val, store) ELSE NotFound

\* open(filename, "wb"): the file exists and is empty
open_wb(store, path) ==
    [p \in DOMAIN store \cup {path} |-> IF p = path THEN <<>> ELSE store[p]]

\* f.write(data) at offset 0 of a file that holds old
overlay(old, data) ==
    data \o SubSeq(old, Len(data) + 1, Len(old))

\* the store after data was written at offset 0 of the open file path
write_at_0(store, path, data) ==
    [p \in DOMAIN store \cup {path} |->
        IF p = path
        THEN overlay(IF path \in DOMAIN store THEN store[path] ELSE <<>>, data)
        ELSE store[p]]

(***************************************************************************)
(* State.  One event_stream generator per request; Runs are the requests   *)
(* the model lets arrive, possibly at the same time (the server is         *)
(* threaded).  The locals of a generator are functions of its run.         *)
(***************************************************************************)
Runs == {"r1", "r2"}

VARIABLES
    pc,             \* where each generator stands (see the actions)
    prompt,         \* the parameter prompt (request.json["prompt"])
    a_out, b_out, c_out,   \* the locals of event_stream; <<>> while unbound
    output,         \* generate_video_from_prompt: what replicate.run returned
    filename,       \* generate_video_from_prompt: the path of line 105
    video_content,  \* generate_video_from_prompt: the downloaded bytes
    d_obj,          \* the local d_obj of event_stream
    exc,            \* the exception e bound by line 179: str(e) and the stage
                    \* whose call raised it (its traceback)
    events,         \* the events each stream has yielded so far, in order
    response,       \* the last response to GET video_url of each run's caller
    timestamp,      \* get_video_filename: the local timestamp of line 29
    calls,          \* the external calls each run has made so far, in order
    stopped,        \* the caller of the run has stopped reading the stream
    now,            \* int(time.time())
    files,          \* the directory videos/: path -> bytes
    fn_pc, fn_topic, fn_clean, fn_again, fn_paths   \* direct calls of the helpers

pipeline_vars == <<pc, prompt, a_out, b_out, c_out, output, filename,
                   video_content, d_obj, exc, events, response, timestamp,
                   calls, stopped, now, files>>
fn_vars == <<fn_pc, fn_topic, fn_clean, fn_again, fn_paths>>
vars == <<pipeline_vars, fn_vars>>

\* the topics the requests of the model carry
Topics == {<<"a", " ", "a">>, <<"?", "/">>}
\* call_openai_agent when the provider answers: message.content is opaque
\* text; the model writes it as the stage's instructions applied to the input,
\* so that texts of different stages or of different inputs differ
call_openai_agent(instructions, user_input) ==
    <<instructions, "(">> \o user_input \o <<")">>

InstructionsA == "You are Agent A"
InstructionsB == "You are Agent B"
InstructionsC == "You are Agent C"

\* lines 46-58
agent_a_planner(user_topic) == call_openai_agent(InstructionsA, user_topic)

\* lines 61-72
agent_b_scenes_and_visuals(outline_text) ==
    call_openai_agent(InstructionsB, outline_text)

\* an agent C that sends the scene plan alone
agent_c_plan_only(scene_plan_text, user_topic) == scene_plan_text

\* line 87: the user message agent C sends
agent_c_combined(scene_plan_text, user_topic) ==
    <<"User topic: ">> \o user_topic \o <<"\n\nScene plan:\n">> \o scene_plan_text

\* lines 75-88
agent_c_final_prompt(scene_plan_text, user_topic) ==
    call_openai_agent(InstructionsC, agent_c_combined(scene_plan_text, user_topic))

\* what the download may return as the binary
Videos == {<<"x", "y">>, <<"z">>}
\* str(e) of the exceptions the external calls may raise
ProviderError == <<"provider error">>
RenderError == <<"render error">>
DownloadError == <<"download error">>
OpenError == <<"open error">>
WriteError == <<"write error">>
\* str(output) of a finished render
OutputUrl == <<"https://replicate.delivery/out.mp4">>

Times == StartTime .. (StartTime + MaxTicks)

NoException == [msg |-> <<>>, stage |-> "none"]
Raised(stage, msg) == [msg |-> msg, stage |-> stage]

NoResponse == [code |-> 0, body |-> <<>>]

PipelineInit ==
    /\ pc = [r \in Runs |-> "idle"]
    /\ prompt = [r \in Runs |-> <<>>]
    /\ a_out = [r \in Runs |-> <<>>]
    /\ b_out = [r \in Runs |-> <<>>]
    /\ c_out = [r \in Runs |-> <<>>]
    /\ output = [r \in Runs |-> <<>>]
    /\ filename = [r \in Runs |-> <<>>]
    /\ video_content = [r \in Runs |-> <<>>]
    /\ d_obj = [r \in Runs |-> UnboundObj]
    /\ exc = [r \in Runs |-> NoException]
    /\ events = [r \in Runs |-> <<>>]
    /\ response = [r \in Runs |-> NoResponse]
    /\ timestamp = [r \in Runs |-> 0]
    /\ calls = [r \in Runs |-> <<>>]
    /\ stopped = [r \in Runs |-> FALSE]
    /\ now = StartTime
    /\ files = <<>>

FnIdle ==
    /\ fn_pc = "off"
    /\ fn_topic = <<>>
    /\ fn_clean = <<>>
    /\ fn_again = <<>>
    /\ fn_paths = <<>>

Init == PipelineInit /\ FnIdle

\* one external call: the stage of event_stream it belongs to, the function
\* called (chat completion, render, download, open, write), the arguments
\* event_stream passed to the stage, what the call itself received (for a
\* write: the bytes that reached the file) and whether it returned
Call(stage, fn, args, input, ok) ==
    [stage |-> stage, fn |-> fn, args |-> args, input |-> input, ok |-> ok]

called(r, c) == calls' = [calls EXCEPT ![r] = Append(@, c)]

\* the server asks the generator of run r for its next event: it does as
\* long as the caller takes what is sent
Pulls(r) == ~stopped[r]

\* a yield into one list that all the generators share
yield_to_all(r, ev) == events' = [q \in Runs |-> Append(events[q], ev)]

\* yield f"data: {json.dumps(ev)}\n\n": the event reaches the stream
yield(r, ev) == events' = [events EXCEPT ![r] = Append(@, ev)]

\* lines 148-150 and 183: a POST arrives and its generator is created
Request(r, topic) ==
    /\ pc[r] = "idle"
    /\ prompt' = [prompt EXCEPT ![r] = topic]
    /\ pc' = [pc EXCEPT ![r] = "A"]
    /\ UNCHANGED <<a_out, b_out, c_out, output, filename, video_content, d_obj,
                   exc, events, response, now, files, timestamp, calls, stopped,
                   fn_vars>>

\* a stage A after which stage B starts at once, before the A event is out
AgentA_no_wait(r) ==
    /\ pc[r] = "A"
    /\ Pulls(r)
    /\ \/ /\ a_out' = [a_out EXCEPT ![r] = agent_a_planner(prompt[r])]
          /\ called(r, Call("A", "chat", <<prompt[r]>>, prompt[r], TRUE))
          /\ pc' = [pc EXCEPT ![r] = "B"]
          /\ exc' = exc
       \/ /\ exc' = [exc EXCEPT ![r] = Raised("A", ProviderError)]
          /\ called(r, Call("A", "chat", <<prompt[r]>>, prompt[r], FALSE))
          /\ pc' = [pc EXCEPT ![r] = "yieldERROR"]
          /\ a_out' = a_out
    /\ UNCHANGED <<prompt, b_out, c_out, output, filename, video_content, d_obj,
                   events, response, now, files, timestamp, stopped,
                   fn_vars>>

\* line 155: agent_a_planner(prompt), one chat completion, returns or raises
AgentA(r) ==
    /\ pc[r] = "A"
    /\ Pulls(r)
    /\ \/ /\ a_out' = [a_out EXCEPT ![r] = agent_a_planner(prompt[r])]
          /\ called(r, Call("A", "chat", <<prompt[r]>>, prompt[r], TRUE))
          /\ pc' = [pc EXCEPT ![r] = "yieldA"]
          /\ exc' = exc
       \/ /\ exc' = [exc EXCEPT ![r] = Raised("A", ProviderError)]
          /\ called(r, Call("A", "chat", <<prompt[r]>>, prompt[r], FALSE))
          /\ pc' = [pc EXCEPT ![r] = "yieldERROR"]
          /\ a_out' = a_out
    /\ UNCHANGED <<prompt, b_out, c_out, output, filename, video_content, d_obj,
                   events, response, now, files, timestamp, stopped,
                   fn_vars>>

\* an event_stream that goes from the A event straight to stage C
EmitA_skips_B(r) ==
    /\ pc[r] = "yieldA"
    /\ yield(r, StageEvent("A", a_out[r]))
    /\ pc' = [pc EXCEPT ![r] = "C"]
    /\ UNCHANGED <<prompt, a_out, b_out, c_out, output, filename, video_content,
                   d_obj, exc, response, now, files, timestamp, calls, stopped,
                   fn_vars>>

\* line 156: the A event is yielded; the generator is suspended there
EmitA(r) ==
    /\ pc[r] = "yieldA"
    /\ yield(r, StageEvent("A", a_out[r]))
    /\ pc' = [pc EXCEPT ![r] = "B"]
    /\ UNCHANGED <<prompt, a_out, b_out, c_out, output, filename, video_content,
                   d_obj, exc, response, now, files, timestamp, calls, stopped,
                   fn_vars>>

\* a stage B whose exception is noted and the stream goes on to its yield
AgentB_continues(r) ==
    /\ pc[r] = "B"
    /\ Pulls(r)
    /\ \/ /\ b_out' = [b_out EXCEPT ![r] = agent_b_scenes_and_visuals(a_out[r])]
          /\ called(r, Call("B", "chat", <<a_out[r]>>, a_out[r], TRUE))
          /\ exc' = exc
       \/ /\ exc' = [exc EXCEPT ![r] = Raised("B", ProviderError)]
          /\ called(r, Call("B", "chat", <<a_out[r]>>, a_out[r], FALSE))
          /\ b_out' = b_out
    /\ pc' = [pc EXCEPT ![r] = "yieldB"]
    /\ UNCHANGED <<prompt, a_out, c_out, output, filename, video_content, d_obj,
                   events, response, now, files, timestamp, stopped,
                   fn_vars>>

\* line 159: next() resumes the generator; agent_b_scenes_and_visuals(a_out)
AgentB(r) ==
    /\ pc[r] = "B"
    /\ Pulls(r)
    /\ \/ /\ b_out' = [b_out EXCEPT ![r] = agent_b_scenes_and_visuals(a_out[r])]
          /\ called(r, Call("B", "chat", <<a_out[r]>>, a_out[r], TRUE))
          /\ pc' = [pc EXCEPT ![r] = "yieldB"]
          /\ exc' = exc
       \/ /\ exc' = [exc EXCEPT ![r] = Raised("B", ProviderError)]
          /\ called(r, Call("B", "chat", <<a_out[r]>>, a_out[r], FALSE))
          /\ pc' = [pc EXCEPT ![r] = "yieldERROR"]
          /\ b_out' = b_out
    /\ UNCHANGED <<prompt, a_out, c_out, output, filename, video_content, d_obj,
                   events, response, now, files, timestamp, stopped,
                   fn_vars>>

\* line 160
EmitB(r) ==
    /\ pc[r] = "yieldB"
    /\ yield(r, StageEvent("B", b_out[r]))
    /\ pc' = [pc EXCEPT ![r] = "C"]
    /\ UNCHANGED <<prompt, a_out, b_out, c_out, output, filename, video_content,
                   d_obj, exc, response, now, files, timestamp, calls, stopped,
                   fn_vars>>

\* line 163: agent_c_final_prompt(b_out, prompt)
AgentC(r) ==
    /\ pc[r] = "C"
    /\ Pulls(r)
    /\ \/ /\ c_out' = [c_out EXCEPT ![r] = agent_c_final_prompt(b_out[r], prompt[r])]
          /\ called(r, Call("C", "chat", <<b_out[r], prompt[r]>>, agent_c_combined(b_out[r], prompt[r]), TRUE))
          /\ pc' = [pc EXCEPT ![r] = "yieldC"]
          /\ exc' = exc
       \/ /\ exc' = [exc EXCEPT ![r] = Raised("C", ProviderError)]
          /\ called(r, Call("C", "chat", <<b_out[r], prompt[r]>>, agent_c_combined(b_out[r], prompt[r]), FALSE))
          /\ pc' = [pc EXCEPT ![r] = "yieldERROR"]
          /\ c_out' = c_out
    /\ UNCHANGED <<prompt, a_out, b_out, output, filename, video_content, d_obj,
                   events, response, now, files, timestamp, stopped,
                   fn_vars>>

\* line 164
EmitC(r) ==
    /\ pc[r] = "yieldC"
    /\ yield(r, StageEvent("C", c_out[r]))
    /\ pc' = [pc EXCEPT ![r] = "D"]
    /\ UNCHANGED <<prompt, a_out, b_out, c_out, output, filename, video_content,
                   d_obj, exc, response, now, files, timestamp, calls, stopped,
                   fn_vars>>

\* generate_video_from_prompt returns info; lines 125-133 and 167 follow
ReturnD(r, info) ==
    /\ d_obj' = [d_obj EXCEPT ![r] = agent_d_video_generator(c_out[r], info)]
    /\ pc' = [pc EXCEPT ![r] = "yieldD"]

\* a render whose failure is not caught by generate_video_from_prompt
Render_raises(r) ==
    /\ pc[r] = "D"
    /\ Pulls(r)
    /\ \/ /\ output' = [output EXCEPT ![r] = OutputUrl]
          /\ called(r, Call("D", "render", <<c_out[r], prompt[r]>>, c_out[r], TRUE))
          /\ pc' = [pc EXCEPT ![r] = "download"]
          /\ exc' = exc
       \/ /\ exc' = [exc EXCEPT ![r] = Raised("D", RenderError)]
          /\ called(r, Call("D", "render", <<c_out[r], prompt[r]>>, c_out[r], FALSE))
          /\ pc' = [pc EXCEPT ![r] = "yieldERROR"]
          /\ output' = output
    /\ UNCHANGED <<prompt, a_out, b_out, c_out, filename, video_content, d_obj,
                   events, response, now, files, timestamp, stopped,
                   fn_vars>>

\* a render that is tried a second time when it fails
Render_retries_once(r) ==
    /\ pc[r] = "D"
    /\ Pulls(r)
    /\ \/ /\ output' = [output EXCEPT ![r] = OutputUrl]
          /\ called(r, Call("D", "render", <<c_out[r], prompt[r]>>, c_out[r], TRUE))
          /\ pc' = [pc EXCEPT ![r] = "download"]
          /\ d_obj' = d_obj
       \/ /\ IF \E i \in 1..Len(calls[r]) : calls[r][i].fn = "render"
             THEN ReturnD(r, ErrorInfo(RenderError))
             ELSE UNCHANGED <<pc, d_obj>>
          /\ called(r, Call("D", "render", <<c_out[r], prompt[r]>>, c_out[r], FALSE))
          /\ output' = output
    /\ UNCHANGED <<prompt, a_out, b_out, c_out, filename, video_content, exc,
                   events, response, now, files, timestamp, stopped,
                   fn_vars>>

\* line 167 -> 123 -> 94: replicate.run returns the output or raises
Render(r) ==
    /\ pc[r] = "D"
    /\ Pulls(r)
    /\ \/ /\ output' = [output EXCEPT ![r] = OutputUrl]
          /\ called(r, Call("D", "render", <<c_out[r], prompt[r]>>, c_out[r], TRUE))
          /\ pc' = [pc EXCEPT ![r] = "download"]
          /\ d_obj' = d_obj
       \/ /\ ReturnD(r, ErrorInfo(RenderError))
          /\ called(r, Call("D", "render", <<c_out[r], prompt[r]>>, c_out[r], FALSE))
          /\ output' = output
    /\ UNCHANGED <<prompt, a_out, b_out, c_out, filename, video_content, exc,
                   events, response, now, files, timestamp, stopped,
                   fn_vars>>

\* a download whose failure is not caught by generate_video_from_prompt
Download_raises(r) ==
    /\ pc[r] = "download"
    /\ timestamp' = [timestamp EXCEPT ![r] = now]
    /\ filename' = [filename EXCEPT ![r] = get_video_filename(prompt[r], now)]
    /\ \/ \E v \in Videos :
            /\ video_content' = [video_content EXCEPT ![r] = v]
            /\ called(r, Call("D", "download", <<c_out[r], prompt[r]>>, output[r], TRUE))
            /\ pc' = [pc EXCEPT ![r] = "open"]
            /\ exc' = exc
       \/ /\ exc' = [exc EXCEPT ![r] = Raised("D", DownloadError)]
          /\ called(r, Call("D", "download", <<c_out[r], prompt[r]>>, output[r], FALSE))
          /\ pc' = [pc EXCEPT ![r] = "yieldERROR"]
          /\ video_content' = video_content
    /\ UNCHANGED <<prompt, a_out, b_out, c_out, output, d_obj, events, response,
                   now, files, stopped,
                   fn_vars>>

\* lines 105-107: the path is fixed from the clock, then the download
Download(r) ==
    /\ pc[r] = "download"
    /\ timestamp' = [timestamp EXCEPT ![r] = now]
    /\ filename' = [filename EXCEPT ![r] = get_video_filename(prompt[r], now)]
    /\ \/ \E v \in Videos :
            /\ video_content' = [video_content EXCEPT ![r] = v]
            /\ called(r, Call("D", "download", <<c_out[r], prompt[r]>>, output[r], TRUE))
            /\ pc' = [pc EXCEPT ![r] = "open"]
            /\ d_obj' = d_obj
       \/ /\ ReturnD(r, ErrorInfo(DownloadError))
          /\ called(r, Call("D", "download", <<c_out[r], prompt[r]>>, output[r], FALSE))
          /\ video_content' = video_content
    /\ UNCHANGED <<prompt, a_out, b_out, c_out, output, exc, events, response,
                   now, files, stopped,
                   fn_vars>>

\* line 108: open(filename, "wb") creates or truncates the file, or raises
Open(r) ==
    /\ pc[r] = "open"
    /\ \/ /\ files' = open_wb(files, filename[r])
          /\ called(r, Call("D", "open", <<c_out[r], prompt[r]>>, filename[r], TRUE))
          /\ pc' = [pc EXCEPT ![r] = "write"]
          /\ d_obj' = d_obj
       \/ /\ ReturnD(r, ErrorInfo(OpenError))
          /\ called(r, Call("D", "open", <<c_out[r], prompt[r]>>, filename[r], FALSE))
          /\ files' = files
    /\ UNCHANGED <<prompt, a_out, b_out, c_out, output, filename, video_content,
                   exc, events, response, now, timestamp, stopped,
                   fn_vars>>

\* a write whose failure is not noticed: the outcome is "completed" all the same
Write_unchecked(r) ==
    /\ pc[r] = "write"
    /\ \/ /\ files' = write_at_0(files, filename[r], video_content[r])
          /\ called(r, Call("D", "write", <<c_out[r], prompt[r]>>, video_content[r], TRUE))
          /\ ReturnD(r, CompletedInfo(filename[r], output[r]))
       \/ \E n \in 0 .. (Len(video_content[r]) - 1) :
            /\ files' = write_at_0(files, filename[r], SubSeq(video_content[r], 1, n))
            /\ called(r, Call("D", "write", <<c_out[r], prompt[r]>>,
                              SubSeq(video_content[r], 1, n), FALSE))
            /\ ReturnD(r, CompletedInfo(filename[r], output[r]))
    /\ UNCHANGED <<prompt, a_out, b_out, c_out, output, filename, video_content,
                   exc, events, response, now, timestamp, stopped,
                   fn_vars>>

\* lines 109-116: f.write(video_content) and the close; a failing write has
\* put a proper prefix of the bytes into the file
Write(r) ==
    /\ pc[r] = "write"
    /\ \/ /\ files' = write_at_0(files, filename[r], video_content[r])
          /\ called(r, Call("D", "write", <<c_out[r], prompt[r]>>, video_content[r], TRUE))
          /\ ReturnD(r, CompletedInfo(filename[r], output[r]))
       \/ \E n \in 0 .. (Len(video_content[r]) - 1) :
            /\ files' = write_at_0(files, filename[r], SubSeq(video_content[r], 1, n))
            /\ called(r, Call("D", "write", <<c_out[r], prompt[r]>>,
                              SubSeq(video_content[r], 1, n), FALSE))
            /\ ReturnD(r, ErrorInfo(WriteError))
    /\ UNCHANGED <<prompt, a_out, b_out, c_out, output, filename, video_content,
                   exc, events, response, now, timestamp, stopped,
                   fn_vars>>

\* lines 168-175
EmitD(r) ==
    /\ pc[r] = "yieldD"
    /\ yield(r, DEvent(d_obj[r]))
    /\ pc' = [pc EXCEPT ![r] = "DONE"]
    /\ UNCHANGED <<prompt, a_out, b_out, c_out, output, filename, video_content,
                   d_obj, exc, response, now, files, timestamp, calls, stopped,
                   fn_vars>>

\* line 177
EmitDONE(r) ==
    /\ pc[r] = "DONE"
    /\ Pulls(r)
    /\ yield(r, DoneEvent)
    /\ pc' = [pc EXCEPT ![r] = "END"]
    /\ UNCHANGED <<prompt, a_out, b_out, c_out, output, filename, video_content,
                   d_obj, exc, response, now, files, timestamp, calls, stopped,
                   fn_vars>>

\* an except block after which control falls through to the DONE yield
EmitERROR_then_DONE(r) ==
    /\ pc[r] = "yieldERROR"
    /\ yield(r, ErrorEvent(exc[r].msg))
    /\ pc' = [pc EXCEPT ![r] = "DONE"]
    /\ UNCHANGED <<prompt, a_out, b_out, c_out, output, filename, video_content,
                   d_obj, exc, response, now, files, timestamp, calls, stopped,
                   fn_vars>>

\* lines 179-181: the exception of a text stage is reported
EmitERROR(r) ==
    /\ pc[r] = "yieldERROR"
    /\ yield(r, ErrorEvent(exc[r].msg))
    /\ pc' = [pc EXCEPT ![r] = "END"]
    /\ UNCHANGED <<prompt, a_out, b_out, c_out, output, filename, video_content,
                   d_obj, exc, response, now, files, timestamp, calls, stopped,
                   fn_vars>>

\* the next() after the last yield: the generator returns (StopIteration)
Finish(r) ==
    /\ pc[r] = "END"
    /\ Pulls(r)
    /\ pc' = [pc EXCEPT ![r] = "done"]
    /\ UNCHANGED <<prompt, a_out, b_out, c_out, output, filename, video_content,
                   d_obj, exc, events, response, now, files, timestamp, calls, stopped,
                   fn_vars>>

\* a generator that could also be closed in the middle of its file write
Suspended_or_writing(r) == pc[r] \in {"A", "B", "C", "D", "DONE", "END", "write"}

\* the generator is suspended at a yield (or was never started)
Suspended(r) == pc[r] \in {"A", "B", "C", "D", "DONE", "END"}

\* line 183: the caller goes away and the server closes the response iterable;
\* GeneratorExit is raised at the yield and is no Exception, so line 179
\* does not catch it
Close(r) ==
    /\ Suspended(r)
    /\ pc' = [pc EXCEPT ![r] = "closed"]
    /\ UNCHANGED <<prompt, a_out, b_out, c_out, output, filename, video_content,
                   d_obj, exc, events, response, now, files, timestamp, calls, stopped,
                   fn_vars>>

\* the video_url the caller of run r has received, if any
ReceivedUrl(r) ==
    {events[r][i].video_url.val :
        i \in {j \in 1..Len(events[r]) :
                 events[r][j].agent = "D" /\ events[r][j].video_url.some}}

\* lines 143-145: the caller of run r requests the video_url of its D event
GetVideo(r) ==
    /\ \E url \in ReceivedUrl(r) :
            response' = [response EXCEPT ![r] = http_get(url, files)]
    /\ UNCHANGED <<pc, prompt, a_out, b_out, c_out, output, filename,
                   video_content, d_obj, exc, events, now, files, timestamp, calls, stopped,
                   fn_vars>>

\* a second passes
Tick ==
    /\ now < StartTime + MaxTicks
    /\ now' = now + 1
    /\ UNCHANGED <<pc, prompt, a_out, b_out, c_out, output, filename,
                   video_content, d_obj, exc, events, response, files, timestamp, calls, stopped,
                   fn_vars>>

Next ==
    \/ \E r \in Runs, topic \in Topics : Request(r, topic)
    \/ \E r \in Runs : AgentA(r)
    \/ \E r \in Runs : EmitA(r)
    \/ \E r \in Runs : AgentB(r)
    \/ \E r \in Runs : EmitB(r)
    \/ \E r \in Runs : AgentC(r)
    \/ \E r \in Runs : EmitC(r)
    \/ \E r \in Runs : Render(r)
    \/ \E r \in Runs : Download(r)
    \/ \E r \in Runs : Open(r)
    \/ \E r \in Runs : Write(r)
    \/ \E r \in Runs : EmitD(r)
    \/ \E r \in Runs : EmitDONE(r)
    \/ \E r \in Runs : EmitERROR(r)
    \/ \E r \in Runs : Finish(r)
    \/ \E r \in Runs : Close(r)
    \/ \E r \in Runs : GetVideo(r)
    \/ Tick

Spec == Init /\ [][Next]_vars

(***************************************************************************)
(* The same program with callers that may stop taking events while they    *)
(* keep the connection open.  A generator runs only inside next(): nothing *)
(* in event_stream (no timeout, no heartbeat) makes it go on by itself.    *)
(***************************************************************************)
\* the consumer of run r's stream pulls no further event
StopReading(r) ==
    /\ pc[r] \notin {"idle", "done", "closed"}
    /\ ~stopped[r]
    /\ stopped' = [stopped EXCEPT ![r] = TRUE]
    /\ UNCHANGED <<pc, prompt, a_out, b_out, c_out, output, filename,
                   video_content, d_obj, exc, events, response, timestamp,
                   calls, now, files, fn_vars>>

\* a step of the generator of run r itself (lines 152-181)
RunStep(r) ==
    \/ AgentA(r) \/ EmitA(r)
    \/ AgentB(r) \/ EmitB(r)
    \/ AgentC(r) \/ EmitC(r)
    \/ Render(r) \/ Download(r) \/ Open(r) \/ Write(r)
    \/ EmitD(r) \/ EmitDONE(r) \/ EmitERROR(r)
    \/ Finish(r)

NextStall ==
    \/ Next
    \/ \E r \in Runs : StopReading(r)

SpecStall == Init /\ [][NextStall]_vars

(***************************************************************************)
(* The helpers called directly: sanitize_filename on a topic, then on its  *)
(* own result, then get_video_filename twice.  The topics are every string *)
(* of at most MaxLen characters over Alphabet, alone or after a run of     *)
(* word characters that brings it to the slice at TruncLen.                *)
(***************************************************************************)
ShortStrings == UNION {[1..n -> Alphabet] : n \in 0..MaxLen}
Pad(k) == [i \in 1..k |-> "a"]
PadLens == {0, TruncLen - 2, TruncLen - 1}
AllTopics == {Pad(k) \o t : k \in PadLens, t \in ShortStrings}

FnInit ==
    /\ PipelineInit
    /\ fn_pc = "sanitize"
    /\ fn_topic \in AllTopics
    /\ fn_clean = <<>>
    /\ fn_again = <<>>
    /\ fn_paths = <<>>

\* sanitize_filename(topic)
FnSanitize ==
    /\ fn_pc = "sanitize"
    /\ fn_clean' = sanitize_filename(fn_topic)
    /\ fn_pc' = "again"
    /\ UNCHANGED <<pipeline_vars, fn_topic, fn_again, fn_paths>>

\* sanitize_filename(sanitize_filename(topic))
FnSanitizeAgain ==
    /\ fn_pc = "again"
    /\ fn_again' = sanitize_filename(fn_clean)
    /\ fn_pc' = "path"
    /\ UNCHANGED <<pipeline_vars, fn_topic, fn_clean, fn_paths>>

\* get_video_filename(topic) while time.time() is in the second ts
FnGetVideoFilename(ts) ==
    /\ fn_pc = "path"
    /\ Len(fn_paths) < 2
    /\ fn_paths' = Append(fn_paths,
                     [timestamp |-> ts, path |-> get_video_filename(fn_topic, ts)])
    /\ UNCHANGED <<pipeline_vars, fn_pc, fn_topic, fn_clean, fn_again>>

FnNext ==
    \/ FnSanitize
    \/ FnSanitizeAgain
    \/ \E ts \in Times : FnGetVideoFilename(ts)

SpecNames == FnInit /\ [][FnNext]_vars

(***************************************************************************)
(* Properties of the stream.                                               *)
(***************************************************************************)
\* the 'agent' identifiers run r has emitted, in order
Agents(r) == [i \in 1..Len(events[r]) |-> events[r][i].agent]

IsPrefix(s, t) == Len(s) <= Len(t) /\ SubSeq(t, 1, Len(s)) = s

\* the generator ran to its end: every event it yields was taken by the caller
ReadToEnd(r) == pc[r] = "done"

Count(r, ids) == Cardinality({i \in 1..Len(events[r]) : events[r][i].agent \in ids})

FullRun == <<"A", "B", "C", "D", "DONE">>
AbortedRuns == {<<"ERROR">>, <<"A", "ERROR">>, <<"A", "B", "ERROR">>}

\* C1 as stated: the identifiers of every run read to its end are A, B, C, D
\* followed by DONE or by ERROR
C1_AlwaysAllFourStages ==
    \A r \in Runs :
        ReadToEnd(r) => Agents(r) \in {FullRun, <<"A", "B", "C", "D", "ERROR">>}

\* C1 amended: a run read to its end emits A, B, C, D, DONE, or, when a text
\* stage raises, the identifiers of the text stages before it followed by
\* ERROR; what a run has emitted so far is always a prefix of one of these
\* sequences, so nothing is reordered or emitted twice and ERROR never follows D
C1_StageOrder ==
    \A r \in Runs :
        /\ \E full \in {FullRun} \cup AbortedRuns : IsPrefix(Agents(r), full)
        /\ ReadToEnd(r) => Agents(r) \in {FullRun} \cup AbortedRuns

C1_Witness ==
    \E r \in Runs : ReadToEnd(r) /\ Agents(r) = <<"A", "B", "ERROR">>

\* the text stages that completed before stage X
StagesBefore(X) ==
    CASE X = "A" -> <<>>
      [] X = "B" -> <<"A">>
      [] X = "C" -> <<"A", "B">>

\* the events of the text stages in ids, as run r yields them
EventsOf(r, ids) ==
    [i \in 1..Len(ids) |->
        StageEvent(ids[i], IF ids[i] = "A" THEN a_out[r] ELSE b_out[r])]

\* C2: once a text stage X of A, B, C has raised, the stream holds the events
\* of the stages before X, unchanged, and after them nothing but one ERROR
\* event: no event of X, of a later stage or DONE; the ERROR event is there as
\* soon as the except block has yielded
C2_TextStageFailure ==
    \A r \in Runs :
        exc[r].stage # "none" =>
            /\ exc[r].stage \in {"A", "B", "C"}
            /\ LET kept == EventsOf(r, StagesBefore(exc[r].stage))
                   whole == kept \o <<ErrorEvent(exc[r].msg)>>
               IN  IF pc[r] = "yieldERROR" THEN events[r] = kept
                   ELSE events[r] = whole

C2_Witness ==
    \E r \in Runs : exc[r].stage = "B" /\ ReadToEnd(r) /\ Len(events[r]) = 2

\* generate_video_from_prompt of run r has returned a failure
RenderFailed(r) == d_obj[r].video_info.status = "error"

\* C3: once A, B and C have succeeded no ERROR event is ever emitted and no
\* exception reaches event_stream, whatever the render stage does; when the
\* render stage failed, the stream is a prefix of A, B, C, D, DONE with the D
\* event carrying video_status "error", and the whole of it once read to its end
C3_RenderFailureIsDone ==
    \A r \in Runs :
        /\ c_out[r] # <<>> =>
              /\ exc[r] = NoException
              /\ Count(r, {"ERROR"}) = 0
              /\ IsPrefix(Agents(r), FullRun)
        /\ RenderFailed(r) =>
              /\ IsPrefix(<<"A", "B", "C">>, Agents(r))
              /\ pc[r] # "yieldD" => /\ Len(events[r]) >= 4
                                     /\ events[r][4].video_status = "error"
              /\ ReadToEnd(r) => Agents(r) = FullRun

C3_Witness ==
    \E r \in Runs :
        /\ ReadToEnd(r)
        /\ d_obj[r].video_info = ErrorInfo(RenderError)
        /\ Agents(r) = FullRun

\* the D events run r has emitted
DEvents(r) == {events[r][i] : i \in {j \in 1..Len(events[r]) : events[r][j].agent = "D"}}

\* agent_d_video_generator of run r has returned
StageDReturned(r) == d_obj[r] # UnboundObj

\* C4: in every result of agent_d_video_generator video_url is non-null
\* exactly when video_info.status is "completed", and so is
\* video_info.filename; in every D event video_url is non-null exactly when
\* video_status is "completed"
C4_LocationIffCompleted ==
    \A r \in Runs :
        /\ StageDReturned(r) =>
              /\ d_obj[r].video_url.some <=> d_obj[r].video_info.status = "completed"
              /\ d_obj[r].video_info.filename.some
                    <=> d_obj[r].video_info.status = "completed"
        /\ \A ev \in DEvents(r) : ev.video_url.some <=> ev.video_status = "completed"

C4_Witness ==
    \E r1, r2 \in Runs :
        /\ \E ev \in DEvents(r1) : ev.video_status = "completed" /\ ev.video_url.some
        /\ \E ev \in DEvents(r2) : ev.video_status = "error" /\ ~ev.video_url.some

\* C5: a run emits at most one of the sentinels DONE and ERROR, at most once,
\* and nothing after it; a run read to its end has emitted exactly one
C5_OneTerminalEvent ==
    \A r \in Runs :
        /\ Count(r, {"DONE", "ERROR"}) <= 1
        /\ \A i \in 1..Len(events[r]) :
              events[r][i].agent \in {"DONE", "ERROR"} => i = Len(events[r])
        /\ pc[r] \in {"END", "done"} => Count(r, {"DONE", "ERROR"}) = 1

C5_Witness ==
    \E r1, r2 \in Runs :
        /\ ReadToEnd(r1) /\ Agents(r1)[Len(events[r1])] = "DONE"
        /\ ReadToEnd(r2) /\ Agents(r2)[Len(events[r2])] = "ERROR"

(***************************************************************************)
(* Properties of the render stage and of the file store.                   *)
(***************************************************************************)
RenderErrors == {RenderError, DownloadError, OpenError, WriteError}

\* run r is inside generate_video_from_prompt, or about to enter it
InRender(r) == pc[r] \in {"D", "download", "open", "write"}

\* the D event of a failed render, whatever failed
FailedDEvent(r) ==
    [agent |-> "D", content |-> c_out[r], video_url |-> None,
     video_status |-> "error", filename |-> None]

\* C6, in every state: no exception of the render stage reaches event_stream;
\* a failed render returns status "error", an error detail and a null
\* filename, and its D event is the same whichever call failed
C6_State ==
    \A r \in Runs :
        /\ exc[r].stage # "D"
        /\ StageDReturned(r) => d_obj[r].video_info.status \in {"completed", "error"}
        /\ RenderFailed(r) =>
              /\ d_obj[r].video_info.error \in RenderErrors
              /\ d_obj[r] = [final_prompt |-> c_out[r],
                             video_info   |-> ErrorInfo(d_obj[r].video_info.error),
                             video_url    |-> None]
              /\ DEvents(r) \subseteq {FailedDEvent(r)}

\* C6, in every step that ends generate_video_from_prompt: it returns to the
\* D yield, and with status "completed" only from a write that put all the
\* bytes into the file; every other way out is a failure and returns "error"
C6_Step ==
    \A r \in Runs :
        (InRender(r) /\ pc'[r] \notin {"D", "download", "open", "write", "closed"}) =>
            /\ pc'[r] = "yieldD"
            /\ exc'[r] = NoException
            /\ \/ d_obj'[r].video_info.status = "error"
               \/ /\ d_obj'[r].video_info.status = "completed"
                  /\ pc[r] = "write"
                  /\ files'[filename[r]] = overlay(files[filename[r]], video_content[r])

\* C6: every failure inside the render stage, of the render call, of the
\* download or of the file write, ends in the same returned outcome, status
\* "error" with an error detail and a null filename, and raises nothing
C6_RenderFailureContained == []C6_State /\ [][C6_Step]_vars

C6_Witness ==
    \E r1, r2 \in Runs :
        /\ d_obj[r1].video_info = ErrorInfo(WriteError)
        /\ d_obj[r2].video_info = ErrorInfo(DownloadError)
        /\ DEvents(r1) # {} /\ DEvents(r2) # {}

\* C7 as stated: every D event carries a video_status of "completed" or
\* "error" and a filename that is a string, never null
C7_DEventFilenameIsString ==
    \A r \in Runs : \A ev \in DEvents(r) :
        /\ ev.video_status \in {"completed", "error"}
        /\ ev.filename.some

\* the slug of a path videos/<slug>_<timestamp>.mp4
SlugOf(path, ts) ==
    SubSeq(path, Len(VideosDir) + 2, Len(path) - Len(<<"_">> \o str_int(ts) \o Mp4))

\* C8: sanitizing the result of sanitize_filename again changes nothing, and
\* two calls of get_video_filename for the same topic in the same second
\* give the same path
C8_SanitizeIdempotent ==
    /\ fn_pc = "path" => fn_again = fn_clean
    /\ \A i, j \in 1..Len(fn_paths) :
          fn_paths[i].timestamp = fn_paths[j].timestamp
              => fn_paths[i].path = fn_paths[j].path

C8_Witness ==
    /\ fn_pc = "path"
    /\ Len(fn_topic) > TruncLen
    /\ Len(fn_clean) = TruncLen
    /\ fn_clean[TruncLen] = "_"
    /\ Len(fn_paths) = 2
    /\ fn_paths[1].timestamp = fn_paths[2].timestamp

\* no character of the topic survives the first substitution or the strip
OnlyDisallowed(topic) == \A i \in 1..Len(topic) : topic[i] \in OtherChars

\* C9: the slug of every path get_video_filename builds is not empty, has at
\* most 50 characters, all of them word characters, and is "video" when the
\* topic is empty or holds only disallowed characters
C9_SlugIsSafe ==
    \A i \in 1..Len(fn_paths) :
        LET slug == SlugOf(fn_paths[i].path, fn_paths[i].timestamp)
        IN  /\ fn_paths[i].path =
                  VideosDir \o <<"/">> \o slug \o <<"_">>
                      \o str_int(fn_paths[i].timestamp) \o Mp4
            /\ slug # <<>>
            /\ Len(slug) <= TruncLen
            /\ \A k \in 1..Len(slug) : slug[k] \in WordChars
            /\ OnlyDisallowed(fn_topic) => slug = Placeholder

C9_Witness ==
    /\ Len(fn_paths) >= 1
    /\ fn_topic # <<>>
    /\ OnlyDisallowed(fn_topic)
    /\ SlugOf(fn_paths[1].path, fn_paths[1].timestamp) = Placeholder

\* no other run has fixed the same path as run r
NoCollision(r) == \A q \in Runs \ {r} : filename[q] # filename[r]

\* C10 as stated: whenever the caller of a run has fetched the video_url of
\* its completed D event, it was served the bytes that run wrote
C10_ServedWhatThisRunWrote ==
    \A r \in Runs :
        response[r] # NoResponse =>
            response[r] = [code |-> 200, body |-> video_content[r]]

\* C10 amended: the video_url of a completed D event is always served (200),
\* and the bytes served are the bytes that run wrote provided no other run
\* fixed the same path (same slug in the same second); colliding runs
\* overwrite each other's file
C10_RoundTrip ==
    \A r \in Runs :
        response[r] # NoResponse =>
            /\ response[r].code = 200
            /\ NoCollision(r) => response[r].body = video_content[r]

C10_Witness ==
    \E r \in Runs :
        /\ response[r] = [code |-> 200, body |-> video_content[r]]
        /\ NoCollision(r)
        /\ \E q \in Runs \ {r} : filename[q] # <<>> /\ filename[q] \in DOMAIN files

(***************************************************************************)
(* Properties of cancellation, of concurrent runs and of the data flow.    *)
(***************************************************************************)
\* the run has ended: its generator returned or was closed
Ended(r) == pc[r] \in {"done", "closed"}

\* C11 as stated: a run that has emitted an event, whose consumer has stopped
\* pulling events and that has not ended can still take a step of its own,
\* so it goes on to its end without the consumer (the caller disconnecting
\* is not a step of the run)
C11_StalledRunGoesOn ==
    \A r \in Runs :
        (stopped[r] /\ events[r] # <<>> /\ ~Ended(r)) => ENABLED RunStep(r)

\* the calls of run r to the function fn
CallsTo(r, fn) == {i \in 1..Len(calls[r]) : calls[r][i].fn = fn}

\* C12, in every step that closes a generator: it was suspended at a yield
\* (or not yet started), and the step touches neither the file store nor the
\* calls of the run
C12_Step ==
    \A r \in Runs :
        (pc[r] # "closed" /\ pc'[r] = "closed") =>
            /\ pc[r] \in {"A", "B", "C", "D", "DONE", "END"}
            /\ files' = files
            /\ calls' = calls

\* C12, in every state where a generator is closed: every file it opened it
\* also wrote (to the end or until the write failed by itself), and if its
\* render call returned, generate_video_from_prompt returned as well
C12_State ==
    \A r \in Runs :
        pc[r] = "closed" =>
            /\ \A i \in CallsTo(r, "open") :
                  calls[r][i].ok => \E j \in CallsTo(r, "write") : j > i
            /\ (\E i \in CallsTo(r, "render") : calls[r][i].ok)
                  => d_obj[r].video_info.status \in {"completed", "error"}

\* C12: the consumer's cancellation takes effect only while the generator is
\* suspended at a yield, so it never interrupts a download or a file write:
\* once the render stage has started they run to completion or fail by
\* themselves first
C12_CancelOnlyAtYield == []C12_State /\ [][C12_Step]_vars

C12_Witness ==
    \E r \in Runs :
        /\ pc[r] = "closed"
        /\ d_obj[r].video_info.status = "completed"
        /\ Agents(r) = <<"A", "B", "C", "D">>
        /\ files[filename[r]] = video_content[r]

\* the locals of the generator of run r and of the functions it calls
Locals(r) ==
    <<pc[r], prompt[r], a_out[r], b_out[r], c_out[r], output[r], filename[r],
      video_content[r], d_obj[r], exc[r], events[r], timestamp[r], calls[r]>>

\* the events a run with the stage results of run r emits when it is the
\* only run (lines 154-181)
Alone(r) ==
    IF exc[r].stage # "none"
    THEN EventsOf(r, StagesBefore(exc[r].stage)) \o <<ErrorEvent(exc[r].msg)>>
    ELSE <<StageEvent("A", a_out[r]), StageEvent("B", b_out[r]),
           StageEvent("C", c_out[r]), DEvent(d_obj[r]), DoneEvent>>

\* run r has fixed the path of its video (line 105)
HasPath(r) == filename[r] # <<>>

\* C13 as stated (its second part): two simultaneous runs write to distinct
\* paths
C13_DistinctPaths ==
    \A r, q \in Runs :
        (r # q /\ HasPath(r) /\ HasPath(q)) => filename[r] # filename[q]

\* C13 amended, in every state: what a run has emitted is the beginning of
\* what its own stage results determine; a run that has begun and not ended
\* can always take its next step, whatever the other run does; the path of a
\* run is videos/<slug>_<second>.mp4 of its own topic and clock reading, and
\* the paths of two runs are equal exactly when slug and second are
C13_State ==
    /\ \A r \in Runs :
          /\ Len(events[r]) <= Len(Alone(r))
          /\ events[r] = SubSeq(Alone(r), 1, Len(events[r]))
          /\ pc[r] \notin {"idle", "done", "closed"} => ENABLED RunStep(r)
          /\ HasPath(r) => filename[r] = get_video_filename(prompt[r], timestamp[r])
    /\ \A r, q \in Runs :
          (r # q /\ HasPath(r) /\ HasPath(q)) =>
              (filename[r] = filename[q]
                  <=> /\ timestamp[r] = timestamp[q]
                      /\ SlugOf(filename[r], timestamp[r])
                            = SlugOf(filename[q], timestamp[q]))

\* C13 amended, in every step: the locals of at most one run change, and a
\* step that changes the locals of a run leaves the clock alone; the file
\* store is the only state more than one run writes
C13_Step ==
    \A r \in Runs :
        Locals(r)' # Locals(r) =>
            /\ now' = now
            /\ \A q \in Runs \ {r} : Locals(q)' = Locals(q)

\* C13 amended: concurrent runs share no mutable state but the file store,
\* never wait for each other, and each emits the events its own stage
\* results determine; they write to timestamp-disambiguated paths, which are
\* distinct unless both runs have the same slug and fix the path in the same
\* second
C13_RunsIndependent == []C13_State /\ [][C13_Step]_vars

C13_Witness ==
    \E r, q \in Runs :
        /\ r # q
        /\ ReadToEnd(r) /\ ReadToEnd(q)
        /\ d_obj[r].video_info.status = "completed"
        /\ d_obj[q].video_info.status = "completed"
        /\ timestamp[r] = timestamp[q]
        /\ filename[r] # filename[q]
        /\ files[filename[r]] = video_content[r]
        /\ files[filename[q]] = video_content[q]

\* the calls run r has made for stage X
CallsOf(r, X) == {calls[r][i] : i \in {j \in 1..Len(calls[r]) : calls[r][j].stage = X}}

\* C14 as stated: B is handed A's output, C is handed B's output and D is
\* handed C's output, each of them nothing else, and what C and D send to the
\* provider is that one text
C14_OnlyPredecessor ==
    \A r \in Runs :
        /\ \A c \in CallsOf(r, "B") : c.args = <<a_out[r]>> /\ c.input = a_out[r]
        /\ \A c \in CallsOf(r, "C") : c.args = <<b_out[r]>> /\ c.input = b_out[r]
        /\ \A c \in CallsOf(r, "D") : c.args = <<c_out[r]>>

\* C14 amended: A is handed the topic; B is handed A's output and nothing
\* else; C is handed B's output and the original topic, and sends the provider
\* both of them in one message; D is handed C's output and the original
\* topic: it renders C's output unchanged, downloads what the render
\* returned, and names the file after the topic and the clock
C14_DataFlow ==
    \A r \in Runs :
        /\ \A c \in CallsOf(r, "A") : c.args = <<prompt[r]>> /\ c.input = prompt[r]
        /\ \A c \in CallsOf(r, "B") : c.args = <<a_out[r]>> /\ c.input = a_out[r]
        /\ \A c \in CallsOf(r, "C") :
              /\ c.args = <<b_out[r], prompt[r]>>
              /\ c.input = <<"User topic: ">> \o prompt[r]
                              \o <<"\n\nScene plan:\n">> \o b_out[r]
        /\ \A c \in CallsOf(r, "D") :
              /\ c.args = <<c_out[r], prompt[r]>>
              /\ c.fn = "render" => c.input = c_out[r]
              /\ c.fn = "download" => c.input = output[r]
              /\ c.fn = "open" =>
                    c.input = get_video_filename(prompt[r], timestamp[r])
              /\ c.fn = "write" => IsPrefix(c.input, video_content[r])
        /\ a_out[r] # <<>> => a_out[r] = <<InstructionsA, "(">> \o prompt[r] \o <<")">>
        /\ b_out[r] # <<>> => b_out[r] = <<InstructionsB, "(">> \o a_out[r] \o <<")">>
        /\ c_out[r] # <<>> =>
              c_out[r] = <<InstructionsC, "(", "User topic: ">> \o prompt[r]
                             \o <<"\n\nScene plan:\n">> \o b_out[r] \o <<")">>

C14_Witness ==
    \E r \in Runs :
        /\ Len(calls[r]) = 7
        /\ calls[r][3].input = agent_c_combined(b_out[r], prompt[r])
        /\ calls[r][6].input = filename[r]
        /\ calls[r][7].ok
        /\ Agents(r) = FullRun

(***************************************************************************)
(* Properties of the order of the stages and of their calls.               *)
(***************************************************************************)
\* run r has emitted the event of stage X
HasEvent(r, X) == \E i \in 1..Len(events[r]) : events[r][i].agent = X

\* the stage before stage Y
Pred(Y) ==
    CASE Y = "B" -> "A"
      [] Y = "C" -> "B"
      [] Y = "D" -> "C"

StageNo(X) ==
    CASE X = "A" -> 1
      [] X = "B" -> 2
      [] X = "C" -> 3
      [] X = "D" -> 4

\* the local that holds the output of text stage X
Out(r, X) ==
    CASE X = "A" -> a_out[r]
      [] X = "B" -> b_out[r]
      [] X = "C" -> c_out[r]

\* the call of stage X has returned
Completed(r, X) == \E c \in CallsOf(r, X) : c.ok

\* C15: within a run the stages are called in the order A, B, C, D; a stage
\* after A has begun only if the event of the stage before it is out; the
\* event of a text stage is out only if its call has returned and its output
\* is bound; and between the return of a text stage and its event the run does
\* nothing else
C15_Sequential ==
    \A r \in Runs :
        /\ \A i, j \in 1..Len(calls[r]) :
              i < j => StageNo(calls[r][i].stage) <= StageNo(calls[r][j].stage)
        /\ \A Y \in {"B", "C", "D"} : CallsOf(r, Y) # {} => HasEvent(r, Pred(Y))
        /\ \A X \in {"A", "B", "C"} :
              /\ HasEvent(r, X) => Completed(r, X) /\ Out(r, X) # <<>>
              /\ (Completed(r, X) /\ ~HasEvent(r, X)) => pc[r] = "yield" \o X

C15_Witness ==
    \E r \in Runs :
        /\ pc[r] = "yieldB"
        /\ Agents(r) = <<"A">>
        /\ Completed(r, "B")

\* C16: no external call is repeated: a run makes each of the chat calls of
\* A, B and C, the render call, the download, the open and the write at most
\* once; a call that failed is the last call of its run
C16_NoRetry ==
    \A r \in Runs :
        /\ \A i, j \in 1..Len(calls[r]) :
              (calls[r][i].stage = calls[r][j].stage /\ calls[r][i].fn = calls[r][j].fn)
                  => i = j
        /\ \A i \in 1..Len(calls[r]) : ~calls[r][i].ok => i = Len(calls[r])

C16_Witness ==
    \E r, q \in Runs :
        /\ ReadToEnd(r) /\ Len(calls[r]) = 5 /\ ~calls[r][5].ok
        /\ ReadToEnd(q) /\ Len(calls[q]) = 2 /\ ~calls[q][2].ok

\* C17, in every state: the content of the A, B and C events is the text the
\* stage returned, the next stage is handed that same text, and the content
\* of the D event is the output of C, whether the render completed or failed
C17_State ==
    \A r \in Runs :
        /\ \A i \in 1..Len(events[r]) :
              /\ events[r][i].agent \in {"A", "B", "C"}
                    => events[r][i].content = Out(r, events[r][i].agent)
              /\ events[r][i].agent = "D" => events[r][i].content = c_out[r]
        /\ \A Y \in {"B", "C", "D"} :
              \A c \in CallsOf(r, Y) : c.args[1] = Out(r, Pred(Y))
        /\ StageDReturned(r) => d_obj[r].final_prompt = c_out[r]

\* C17, in every step: an output that is bound is not bound again, and an
\* event that was emitted stays as it was
C17_Step ==
    \A r \in Runs :
        /\ \A X \in {"A", "B", "C"} : Out(r, X) # <<>> => Out(r, X)' = Out(r, X)
        /\ IsPrefix(events[r], events'[r])

\* C17: the orchestrator never alters a stage result once produced: events
\* carry it as returned, the next stage receives it as returned, and the D
\* event carries the output of C unchanged in the completed and in the error
\* case
C17_ResultsUnaltered == []C17_State /\ [][C17_Step]_vars

C17_Witness ==
    \E r, q \in Runs :
        /\ \E ev \in DEvents(r) : ev.video_status = "completed" /\ ev.content = c_out[r]
        /\ \E ev \in DEvents(q) : ev.video_status = "error" /\ ev.content = c_out[q]
        /\ c_out[r] # <<>> /\ c_out[q] # <<>>

\* run r has emitted a D event with video_status "completed"
CompletedEvent(r) == \E ev \in DEvents(r) : ev.video_status = "completed"

\* the last call of run q was a write that failed and left the file of run r
\* as it is now
PartialWriteLeft(q, r) ==
    /\ calls[q] # <<>>
    /\ LET c == calls[q][Len(calls[q])]
       IN  /\ c.fn = "write" /\ ~c.ok
           /\ filename[q] = filename[r]
           /\ files[filename[r]] = c.input

\* C18 as stated (its last part): the file a completed D event refers to is
\* never one that a write has left partially written
C18_NeverPartialFile ==
    \A r \in Runs :
        CompletedEvent(r) => \A q \in Runs : ~PartialWriteLeft(q, r)

\* C18 amended: a run emits a completed D event only after its render call,
\* its download, its open and its write have returned, in this order, the
\* write having put all the downloaded bytes into the file; the video_url of
\* the event is "/videos/" and the base name of the path the run opened and
\* wrote; a run whose own write failed reports "error"
C18_CompletedAfterWrite ==
    \A r \in Runs :
        /\ \A ev \in DEvents(r) :
              ev.video_status = "completed" =>
                  /\ Len(calls[r]) = 7
                  /\ \A i \in 1..7 : calls[r][i].ok
                  /\ [i \in 1..4 |-> calls[r][i + 3].fn]
                        = <<"render", "download", "open", "write">>
                  /\ calls[r][6].input = filename[r]
                  /\ calls[r][7].input = video_content[r]
                  /\ ev.video_url = Some(<<"/">> \o VideosDir \o <<"/">>
                        \o SubSeq(filename[r], Len(VideosDir) + 2, Len(filename[r])))
                  /\ ev.filename = Some(filename[r])
        /\ \A c \in CallsOf(r, "D") :
              ~c.ok => /\ ~CompletedEvent(r)
                       /\ StageDReturned(r) => d_obj[r].video_info.status = "error"

C18_Witness ==
    \E r \in Runs :
        /\ CompletedEvent(r)
        /\ Len(calls[r]) = 7
        /\ calls[r][7] = Call("D", "write", <<c_out[r], prompt[r]>>, video_content[r], TRUE)
        /\ files[filename[r]] = video_content[r]

=============================================================================
